---- MODULE Spec2Model ----
(***************************************************************************)
(* validbr: construction and validation of CPF and CNPJ registry numbers.  *)
(*                                                                         *)
(* The crate is a library of pure functions.  The state of the model is    *)
(* the last call a client made (the function and its arguments) and what   *)
(* that call gave back: a returned value, or a panic.                      *)
(*                                                                         *)
(* A text (&str) is a sequence of characters, each a one-character string; *)
(* "U+0663" stands for ARABIC-INDIC DIGIT THREE, a decimal digit (general  *)
(* category Nd) that is not ASCII and takes two bytes in UTF-8.            *)
(***************************************************************************)
EXTENDS Integers, Sequences, FiniteSets, TLC

VARIABLES call, ret

vars == <<call, ret>>

(***************************************************************************)
(* Bounds of the exploration.                                              *)
(***************************************************************************)
\* Longest run of equal digits handed to the functions that take any length.
MaxLen == 40

(***************************************************************************)
(* Outcomes of a call, Result<T, E> and Option<T>.                         *)
(***************************************************************************)
Returned(v) == [tag |-> "Returned", value |-> v]

Panic == [tag |-> "Panic"]

Ok(v) == [tag |-> "Ok", value |-> v]

Err(e) == [tag |-> "Err", err |-> e]

Some(v) == [some |-> TRUE, v |-> v]

None == [some |-> FALSE]

(***************************************************************************)
(* Characters and the three regular expressions.                           *)
(***************************************************************************)
AsciiDigitChars == <<"0", "1", "2", "3", "4", "5", "6", "7", "8", "9">>

\* [0-9]
is_ascii_digit(c) == \E n \in 1..10 : AsciiDigitChars[n] = c

\* \d of the regex crate: Unicode-aware, any character of category Nd.
is_decimal_digit(c) == is_ascii_digit(c) \/ c = "U+0663"

\* Bytes a character takes in UTF-8.
len_utf8(c) == IF c = "U+0663" THEN 2 ELSE 1

RECURSIVE str_len(_)
\* str::len: the length of the text in bytes.
str_len(s) == IF s = <<>> THEN 0 ELSE len_utf8(Head(s)) + str_len(Tail(s))

\* ONLY_NUMBERS = ^[0-9]+$ : one or more characters, every one an ASCII digit.
ONLY_NUMBERS_is_match(s) ==
    /\ Len(s) >= 1
    /\ \A i \in 1..Len(s) : is_ascii_digit(s[i])

\* NOT_NUMBERS = [^0-9]+ with replace_all(text, ""): every run of characters
\* that are not ASCII digits is removed.
NOT_NUMBERS_replace_all(s) == SelectSeq(s, is_ascii_digit)

\* An atom of a pattern: the class \d, or a literal character.
atom_matches(atom, c) == IF atom = "\\d" THEN is_decimal_digit(c) ELSE c = atom

\* Regex::is_match of a pattern without anchors: the pattern matches some
\* substring of the text.
regex_is_match(pattern, s) ==
    \E start \in 0..(Len(s) - Len(pattern)) :
        \A k \in 1..Len(pattern) : atom_matches(pattern[k], s[start + k])

\* \d{3}\.\d{3}\.\d{3}-\d{2}
WELL_FORMATTED_CPF ==
    <<"\\d", "\\d", "\\d", ".", "\\d", "\\d", "\\d", ".",
      "\\d", "\\d", "\\d", "-", "\\d", "\\d">>

\* \d{2}\.\d{3}\.\d{3}/\d{4}-\d{2}
WELL_FORMATTED_CNPJ ==
    <<"\\d", "\\d", ".", "\\d", "\\d", "\\d", ".", "\\d", "\\d", "\\d", "/",
      "\\d", "\\d", "\\d", "\\d", "-", "\\d", "\\d">>

(***************************************************************************)
(* Iterator adapters and conversions used by parse_str.                    *)
(***************************************************************************)
\* Iterator::take
take(s, n) == SubSeq(s, 1, IF n < Len(s) THEN n ELSE Len(s))

\* Iterator::skip
skip(s, n) == SubSeq(s, n + 1, Len(s))

\* char::to_digit(10) followed by u32 -> u8 try_into: only ASCII digits convert.
to_digit(c) ==
    IF is_ascii_digit(c)
    THEN Some((CHOOSE n \in 1..10 : AsciiDigitChars[n] = c) - 1)
    ELSE None

\* convert_to_u8!(iter).collect::<Option<Vec<u8>>>(): None as soon as one
\* character does not convert.
convert_to_u8(chars) ==
    IF \E i \in 1..Len(chars) : ~to_digit(chars[i]).some
    THEN None
    ELSE Some([i \in 1..Len(chars) |-> to_digit(chars[i]).v])

\* Option<Vec<u8>>::and_then(|v| v.try_into().ok()) into [u8; size].
try_into_array(vec, size) ==
    IF vec.some /\ Len(vec.v) = size THEN vec ELSE None

(***************************************************************************)
(* ArrayAppend                                                             *)
(***************************************************************************)
\* Vec::try_into::<[T; size]>(): Ok when the vector has size elements.
vec_try_into(vec, size) == IF Len(vec) = size THEN Ok(vec) ELSE Err(vec)

\* [T; S]::append(element) -> [T; S + 1]: the elements of self chained with
\* the element, collected, converted to an array of S + 1; panic!() if the
\* conversion fails.
append(self, element) ==
    LET S == Len(self)
        vec == self \o <<element>>
        n_array == vec_try_into(vec, S + 1)
    IN  IF n_array.tag = "Ok" THEN Returned(n_array.value) ELSE Panic

\* The mutant of append_array: the elements of the argument come first.
append_array_argument_first(self, array) == Returned(array \o self)

\* [T; S]::append_array(array) -> [T; S + N]
append_array(self, array) ==
    LET S == Len(self)
        N == Len(array)
        vec == self \o array
        n_array == vec_try_into(vec, S + N)
    IN  IF n_array.tag = "Ok" THEN Returned(n_array.value) ELSE Panic

(***************************************************************************)
(* Fixed-width arithmetic.  With overflow checks (the debug profile) an    *)
(* overflowing u16 operation panics; without them (the release profile) it *)
(* wraps modulo 2^16.                                                      *)
(***************************************************************************)
u16_wrap(n) == n % 65536

\* The mutant of u16_overflows: the arithmetic done in u8.
u8_overflows(n) == n > 255

u16_overflows(n) == n > 65535

RECURSIVE sum_of(_)
sum_of(terms) == IF terms = <<>> THEN 0 ELSE Head(terms) + sum_of(Tail(terms))

\* Iterator::sum::<u16>() over products `a as u16 * b as u16`, given the exact
\* products.  The terms are not negative, so a partial sum overflows exactly
\* when the sum of the wrapped terms does.
sum_u16(products) ==
    LET wrapped == [i \in 1..Len(products) |-> u16_wrap(products[i])]
    IN  [value |-> u16_wrap(sum_of(wrapped)),
         exact |-> sum_of(products),
         overflowed |-> \/ \E i \in 1..Len(products) : u16_overflows(products[i])
                        \/ u16_overflows(sum_of(wrapped))]

(***************************************************************************)
(* cpf.rs                                                                  *)
(***************************************************************************)
\* The mutant of cpf_calculate_verifier_digit: weights (S+1)-i taken one too low.
cpf_calculate_verifier_digit_low_weight(cpf_digits, overflow_checks) ==
    LET S == Len(cpf_digits)
        digits_sum == sum_of([i \in 1..S |-> cpf_digits[i] * (S - (i - 1))])
        pre_verifier == (digits_sum * 10) % 11
    IN  Returned(IF pre_verifier = 10 THEN 0 ELSE pre_verifier)

\* digits_sum of cpf::calculate_verifier_digit::<S>: the u16 sum as computed,
\* the sum without width, and whether the u16 arithmetic overflowed.
cpf_digits_sum(cpf_digits) ==
    LET S == Len(cpf_digits)
        modulo_num == S + 1
    IN  sum_u16([i \in 1..S |-> cpf_digits[i] * u16_wrap(modulo_num - (i - 1))])

\* cpf::calculate_verifier_digit::<S>
cpf_calculate_verifier_digit(cpf_digits, overflow_checks) ==
    LET digits_sum == cpf_digits_sum(cpf_digits)
        times_ten == digits_sum.value * 10
        pre_verifier == u16_wrap(times_ten) % 11
    IN  IF overflow_checks /\ (digits_sum.overflowed \/ u16_overflows(times_ten))
        THEN Panic
        ELSE Returned(IF pre_verifier = 10 THEN 0 ELSE pre_verifier)

\* The mutant of cpf_calculate_verifier_digits: the second digit computed over
\* the base followed by 0 instead of the first digit.
cpf_calculate_verifier_digits_no_first(digits, overflow_checks) ==
    LET first_digit == cpf_calculate_verifier_digit(digits, overflow_checks)
        second_digit == cpf_calculate_verifier_digit(append(digits, 0).value,
                                                     overflow_checks)
    IN  Returned(<<first_digit.value, second_digit.value>>)

\* cpf::calculate_verifier_digits
cpf_calculate_verifier_digits(digits, overflow_checks) ==
    LET first_digit == cpf_calculate_verifier_digit(digits, overflow_checks)
    IN  IF first_digit.tag = "Panic" THEN Panic
        ELSE LET digits_with_first_verifier == append(digits, first_digit.value)
                 second_digit == cpf_calculate_verifier_digit(
                                     digits_with_first_verifier.value, overflow_checks)
             IN  IF digits_with_first_verifier.tag = "Panic" THEN Panic
                 ELSE IF second_digit.tag = "Panic" THEN Panic
                 ELSE Returned(<<first_digit.value, second_digit.value>>)

\* The mutant of Cpf_new: a mismatch is reported only when both digits differ.
Cpf_new_both_differ(digits, verifier_digits, overflow_checks) ==
    LET computed == cpf_calculate_verifier_digits(digits, overflow_checks).value
    IN  IF computed[1] # verifier_digits[1] /\ computed[2] # verifier_digits[2]
        THEN Returned(Err("InvalidCpfDigits"))
        ELSE Returned(Ok([digits |-> digits, verifier_digits |-> verifier_digits]))

\* The mutant of Cpf_new: the check pair is compared first, and the range of
\* the values is looked at only when the pair matches.
Cpf_new_checksum_first(digits, verifier_digits, overflow_checks) ==
    LET computed == cpf_calculate_verifier_digits(digits, overflow_checks)
    IN  IF computed.tag = "Panic" THEN Panic
        ELSE IF \/ computed.value[1] # verifier_digits[1]
                \/ computed.value[2] # verifier_digits[2]
        THEN Returned(Err("InvalidCpfDigits"))
        ELSE IF \E i \in 1..Len(digits) : digits[i] > 9
        THEN Returned(Err("DigitsOutOfBounds"))
        ELSE Returned(Ok([digits |-> digits, verifier_digits |-> verifier_digits]))

\* Cpf::new
Cpf_new(digits, verifier_digits, overflow_checks) ==
    LET digits_is_valid == \A i \in 1..Len(digits) : digits[i] <= 9
        verifier_digits_is_valid ==
            \A i \in 1..Len(verifier_digits) : verifier_digits[i] <= 9
    IN  IF ~digits_is_valid \/ ~verifier_digits_is_valid
        THEN Returned(Err("DigitsOutOfBounds"))
        ELSE LET computed == cpf_calculate_verifier_digits(digits, overflow_checks)
             IN  IF computed.tag = "Panic" THEN Panic
                 ELSE IF \/ computed.value[1] # verifier_digits[1]
                         \/ computed.value[2] # verifier_digits[2]
                 THEN Returned(Err("InvalidCpfDigits"))
                 ELSE Returned(Ok([digits |-> digits,
                                   verifier_digits |-> verifier_digits]))

\* The mutant of Cpf_parse_str: the base digits taken from the text as given,
\* not from the text stripped of its punctuation.
Cpf_parse_str_unstripped(cpf, overflow_checks) ==
    LET only_numbers == ONLY_NUMBERS_is_match(cpf)
    IN  IF only_numbers /\ str_len(cpf) # 11
        THEN Returned(Err("ShortCpfString"))
        ELSE IF \/ (ONLY_NUMBERS_is_match(cpf) /\ str_len(cpf) = 11)
                \/ regex_is_match(WELL_FORMATTED_CPF, cpf)
        THEN LET cpf_only_with_numbers == NOT_NUMBERS_replace_all(cpf)
                 digits_vec == convert_to_u8(take(cpf, 9))
                 validators_vec == convert_to_u8(skip(cpf_only_with_numbers, 9))
                 digits_array == try_into_array(digits_vec, 9)
                 validators_array == try_into_array(validators_vec, 2)
             IN  IF digits_array.some
                 THEN IF validators_array.some
                      THEN Cpf_new(digits_array.v, validators_array.v, overflow_checks)
                      ELSE Returned(Err("CouldNotConvertCpfToDigits"))
                 ELSE Returned(Err("CouldNotConvertCpfToDigits"))
        ELSE Returned(Err("InvalidCpfStringFormat"))

\* The mutant of Cpf_parse_str: only a text shorter than 11 is reported short.
Cpf_parse_str_only_shorter(cpf, overflow_checks) ==
    LET only_numbers == ONLY_NUMBERS_is_match(cpf)
    IN  IF only_numbers /\ str_len(cpf) < 11
        THEN Returned(Err("ShortCpfString"))
        ELSE IF \/ (ONLY_NUMBERS_is_match(cpf) /\ str_len(cpf) = 11)
                \/ regex_is_match(WELL_FORMATTED_CPF, cpf)
        THEN LET cpf_only_with_numbers == NOT_NUMBERS_replace_all(cpf)
                 digits_vec == convert_to_u8(take(cpf_only_with_numbers, 9))
                 validators_vec == convert_to_u8(skip(cpf_only_with_numbers, 9))
                 digits_array == try_into_array(digits_vec, 9)
                 validators_array == try_into_array(validators_vec, 2)
             IN  IF digits_array.some
                 THEN IF validators_array.some
                      THEN Cpf_new(digits_array.v, validators_array.v, overflow_checks)
                      ELSE Returned(Err("CouldNotConvertCpfToDigits"))
                 ELSE Returned(Err("CouldNotConvertCpfToDigits"))
        ELSE Returned(Err("InvalidCpfStringFormat"))

\* The mutant of Cpf_parse_str: the check digits are the two digits after the
\* ninth, whatever follows them.
Cpf_parse_str_two_after_ninth(cpf, overflow_checks) ==
    LET only_numbers == ONLY_NUMBERS_is_match(cpf)
    IN  IF only_numbers /\ str_len(cpf) # 11
        THEN Returned(Err("ShortCpfString"))
        ELSE IF \/ (ONLY_NUMBERS_is_match(cpf) /\ str_len(cpf) = 11)
                \/ regex_is_match(WELL_FORMATTED_CPF, cpf)
        THEN LET cpf_only_with_numbers == NOT_NUMBERS_replace_all(cpf)
                 digits_vec == convert_to_u8(take(cpf_only_with_numbers, 9))
                 validators_vec ==
                     convert_to_u8(take(skip(cpf_only_with_numbers, 9), 2))
                 digits_array == try_into_array(digits_vec, 9)
                 validators_array == try_into_array(validators_vec, 2)
             IN  IF digits_array.some
                 THEN IF validators_array.some
                      THEN Cpf_new(digits_array.v, validators_array.v, overflow_checks)
                      ELSE Returned(Err("CouldNotConvertCpfToDigits"))
                 ELSE Returned(Err("CouldNotConvertCpfToDigits"))
        ELSE Returned(Err("InvalidCpfStringFormat"))

\* Cpf::parse_str
Cpf_parse_str(cpf, overflow_checks) ==
    LET only_numbers == ONLY_NUMBERS_is_match(cpf)
    IN  IF only_numbers /\ str_len(cpf) # 11
        THEN Returned(Err("ShortCpfString"))
        ELSE IF \/ (ONLY_NUMBERS_is_match(cpf) /\ str_len(cpf) = 11)
                \/ regex_is_match(WELL_FORMATTED_CPF, cpf)
        THEN LET cpf_only_with_numbers == NOT_NUMBERS_replace_all(cpf)
                 digits_vec == convert_to_u8(take(cpf_only_with_numbers, 9))
                 validators_vec == convert_to_u8(skip(cpf_only_with_numbers, 9))
                 digits_array == try_into_array(digits_vec, 9)
                 validators_array == try_into_array(validators_vec, 2)
             IN  IF digits_array.some
                 THEN IF validators_array.some
                      THEN Cpf_new(digits_array.v, validators_array.v, overflow_checks)
                      ELSE Returned(Err("CouldNotConvertCpfToDigits"))
                 ELSE Returned(Err("CouldNotConvertCpfToDigits"))
        ELSE Returned(Err("InvalidCpfStringFormat"))

(***************************************************************************)
(* cnpj.rs                                                                 *)
(***************************************************************************)
\* The mutant of get_multiplier_values: the cycle is not reversed.
get_multiplier_values_not_reversed(amount) ==
    [k \in 1..amount |-> 2 + ((k - 1) % 8)]

\* The mutant of get_multiplier_values: the range is cycled downwards from 9.
get_multiplier_values_from_nine(amount) ==
    LET range_rev_cycle == [k \in 1..amount |-> 9 - ((k - 1) % 8)]
    IN  [k \in 1..amount |-> range_rev_cycle[amount + 1 - k]]

\* The mutant of get_multiplier_values: one value fewer than asked for.
get_multiplier_values_one_short(amount) ==
    IF amount = 0 THEN <<>>
    ELSE LET n == amount - 1
         IN  [i \in 1..n |-> 2 + ((n - i) % 8)]

\* cnpj::get_multiplier_values: (2u8..=9u8).cycle().take(amount), reversed.
get_multiplier_values(amount) ==
    LET range_rev_cycle == [k \in 1..amount |-> 2 + ((k - 1) % 8)]
    IN  [k \in 1..amount |-> range_rev_cycle[amount + 1 - k]]

\* The mutant of cnpj_calculate_verifier_digit: the remainder 1 is not mapped to 0.
cnpj_calculate_verifier_digit_lt_one(cnpj_digits, overflow_checks) ==
    LET mul_digits == get_multiplier_values(Len(cnpj_digits))
        digits_sum == sum_of([i \in 1..Len(cnpj_digits) |->
                                 cnpj_digits[i] * mul_digits[i]])
        pre_verifier_digit == digits_sum % 11
    IN  Returned(IF pre_verifier_digit < 1 THEN 0 ELSE 11 - pre_verifier_digit)

\* digits_sum of cnpj::calculate_verifier_digit::<S>, as cpf_digits_sum.
cnpj_digits_sum(cnpj_digits) ==
    LET S == Len(cnpj_digits)
        mul_digits == get_multiplier_values(S)
    IN  sum_u16([i \in 1..S |-> cnpj_digits[i] * mul_digits[i]])

\* cnpj::calculate_verifier_digit::<S>; mul_digits[pos] panics when pos is
\* not an index of mul_digits.
cnpj_calculate_verifier_digit(cnpj_digits, overflow_checks) ==
    LET S == Len(cnpj_digits)
        mul_digits == get_multiplier_values(S)
        digits_sum == cnpj_digits_sum(cnpj_digits)
        pre_verifier_digit == digits_sum.value % 11
    IN  IF Len(mul_digits) < S
        THEN Panic
        ELSE IF overflow_checks /\ digits_sum.overflowed
        THEN Panic
        ELSE Returned(IF pre_verifier_digit < 2 THEN 0 ELSE 11 - pre_verifier_digit)

\* cnpj::calculate_verifier_digits
cnpj_calculate_verifier_digits(digits, branch_digits, overflow_checks) ==
    LET cnpj_digits == append_array(digits, branch_digits)
        first_digit == cnpj_calculate_verifier_digit(cnpj_digits.value, overflow_checks)
    IN  IF cnpj_digits.tag = "Panic" THEN Panic
        ELSE IF first_digit.tag = "Panic" THEN Panic
        ELSE LET digits_with_first_verifier ==
                     append(cnpj_digits.value, first_digit.value)
                 second_digit == cnpj_calculate_verifier_digit(
                                     digits_with_first_verifier.value, overflow_checks)
             IN  IF digits_with_first_verifier.tag = "Panic" THEN Panic
                 ELSE IF second_digit.tag = "Panic" THEN Panic
                 ELSE Returned(<<first_digit.value, second_digit.value>>)

\* The mutant of Cnpj_new: the branch digits are not range-checked.
Cnpj_new_branch_unchecked(digits, branch_digits, verifier_digits, overflow_checks) ==
    IF \/ \E i \in 1..Len(digits) : digits[i] > 9
       \/ \E i \in 1..Len(verifier_digits) : verifier_digits[i] > 9
    THEN Returned(Err("DigitsOutOfBounds"))
    ELSE LET computed == cnpj_calculate_verifier_digits(digits, branch_digits, FALSE)
         IN  IF computed.value # verifier_digits
             THEN Returned(Err("InvalidCnpjDigits"))
             ELSE Returned(Ok([digits |-> digits, branch_digits |-> branch_digits,
                               verifier_digits |-> verifier_digits]))

\* Cnpj::new
Cnpj_new(digits, branch_digits, verifier_digits, overflow_checks) ==
    LET digits_is_valid == \A i \in 1..Len(digits) : digits[i] <= 9
        branch_digits_is_valid ==
            \A i \in 1..Len(branch_digits) : branch_digits[i] <= 9
        verifier_digits_is_valid ==
            \A i \in 1..Len(verifier_digits) : verifier_digits[i] <= 9
    IN  IF ~digits_is_valid \/ ~branch_digits_is_valid \/ ~verifier_digits_is_valid
        THEN Returned(Err("DigitsOutOfBounds"))
        ELSE LET computed == cnpj_calculate_verifier_digits(
                                 digits, branch_digits, overflow_checks)
             IN  IF computed.tag = "Panic" THEN Panic
                 ELSE IF \/ computed.value[1] # verifier_digits[1]
                         \/ computed.value[2] # verifier_digits[2]
                 THEN Returned(Err("InvalidCnpjDigits"))
                 ELSE Returned(Ok([digits |-> digits,
                                   branch_digits |-> branch_digits,
                                   verifier_digits |-> verifier_digits]))

\* The mutant of Cnpj_parse_str: the branch digits taken without skipping the base.
Cnpj_parse_str_branch_no_skip(cnpj, overflow_checks) ==
    LET only_numbers == ONLY_NUMBERS_is_match(cnpj)
    IN  IF only_numbers /\ str_len(cnpj) # 14
        THEN Returned(Err("ShortCnpjString"))
        ELSE IF \/ (ONLY_NUMBERS_is_match(cnpj) /\ str_len(cnpj) = 14)
                \/ regex_is_match(WELL_FORMATTED_CNPJ, cnpj)
        THEN LET cnpj_only_with_numbers == NOT_NUMBERS_replace_all(cnpj)
                 digits_vec == convert_to_u8(take(cnpj_only_with_numbers, 8))
                 branch_digits_vec ==
                     convert_to_u8(take(cnpj_only_with_numbers, 4))
                 validators_vec == convert_to_u8(skip(cnpj_only_with_numbers, 12))
                 digits_array == try_into_array(digits_vec, 8)
                 branch_digits_array == try_into_array(branch_digits_vec, 4)
                 validators_array == try_into_array(validators_vec, 2)
             IN  IF digits_array.some
                 THEN IF validators_array.some
                      THEN IF branch_digits_array.some
                           THEN Cnpj_new(digits_array.v, branch_digits_array.v,
                                         validators_array.v, overflow_checks)
                           ELSE Returned(Err("CouldNotConvertCnpjToDigits"))
                      ELSE Returned(Err("CouldNotConvertCnpjToDigits"))
                 ELSE Returned(Err("CouldNotConvertCnpjToDigits"))
        ELSE Returned(Err("InvalidCnpjStringFormat"))

\* Cnpj::parse_str
Cnpj_parse_str(cnpj, overflow_checks) ==
    LET only_numbers == ONLY_NUMBERS_is_match(cnpj)
    IN  IF only_numbers /\ str_len(cnpj) # 14
        THEN Returned(Err("ShortCnpjString"))
        ELSE IF \/ (ONLY_NUMBERS_is_match(cnpj) /\ str_len(cnpj) = 14)
                \/ regex_is_match(WELL_FORMATTED_CNPJ, cnpj)
        THEN LET cnpj_only_with_numbers == NOT_NUMBERS_replace_all(cnpj)
                 digits_vec == convert_to_u8(take(cnpj_only_with_numbers, 8))
                 branch_digits_vec ==
                     convert_to_u8(take(skip(cnpj_only_with_numbers, 8), 4))
                 validators_vec == convert_to_u8(skip(cnpj_only_with_numbers, 12))
                 digits_array == try_into_array(digits_vec, 8)
                 branch_digits_array == try_into_array(branch_digits_vec, 4)
                 validators_array == try_into_array(validators_vec, 2)
             IN  IF digits_array.some
                 THEN IF validators_array.some
                      THEN IF branch_digits_array.some
                           THEN Cnpj_new(digits_array.v, branch_digits_array.v,
                                         validators_array.v, overflow_checks)
                           ELSE Returned(Err("CouldNotConvertCnpjToDigits"))
                      ELSE Returned(Err("CouldNotConvertCnpjToDigits"))
                 ELSE Returned(Err("CouldNotConvertCnpjToDigits"))
        ELSE Returned(Err("InvalidCnpjStringFormat"))

(***************************************************************************)
(* cnpj.rs: Branch                                                         *)
(***************************************************************************)
\* struct Branch([u8; 4]); the field is private to the module.
Branch(branch_digits) == [tag |-> "Branch", digits |-> branch_digits]

\* Branch::first
Branch_first == Branch(<<0, 0, 0, 1>>)

\* Branch::new
Branch_new(branch_digits) ==
    IF \E i \in 1..Len(branch_digits) : branch_digits[i] > 9
    THEN Err("InvalidBranchNumber")
    ELSE Ok(Branch(branch_digits))

\* The mutant of Branch_from_u8: the third digit is the remainder by 10 where
\* it should be the quotient.
Branch_from_u8_third_rem(branch_number) ==
    IF branch_number > 9999
    THEN Err("InvalidBranchNumber")
    ELSE Branch_new(<<branch_number \div 1000, (branch_number % 1000) \div 100,
                      ((branch_number % 1000) % 100) % 10,
                      ((branch_number % 1000) % 100) % 10>>)

\* Branch::from_u8 (its argument is a u16)
Branch_from_u8(branch_number) ==
    IF branch_number > 9999
    THEN Err("InvalidBranchNumber")
    ELSE LET first_digit == (branch_number \div 1000) % 256
             second_digit == ((branch_number % 1000) \div 100) % 256
             third_digit == (((branch_number % 1000) % 100) \div 10) % 256
             fourth_digit == (((branch_number % 1000) % 100) % 10) % 256
         IN  Branch_new(<<first_digit, second_digit, third_digit, fourth_digit>>)

(***************************************************************************)
(* Sampling (the rand feature).  drawn is what the generator yields: the   *)
(* values of Uniform::from(0u8..=9u8), in the order they are taken.        *)
(***************************************************************************)
\* Result::expect: the value of Ok, a panic on Err.
expect(result) ==
    IF result.tag = "Panic" THEN Panic
    ELSE IF result.value.tag = "Ok" THEN Returned(result.value.value)
    ELSE Panic

\* The mutant of Cpf_sample: the two computed digits passed in the other order.
Cpf_sample_swapped(drawn, overflow_checks) ==
    LET verifier == cpf_calculate_verifier_digits(drawn, overflow_checks)
    IN  expect(Cpf_new(drawn, <<verifier.value[2], verifier.value[1]>>,
                       overflow_checks))

\* <Standard as Distribution<Cpf>>::sample
Cpf_sample(drawn, overflow_checks) ==
    LET digits_array == try_into_array(Some(take(drawn, 9)), 9)
    IN  IF ~digits_array.some THEN Panic
        ELSE LET verifier == cpf_calculate_verifier_digits(digits_array.v,
                                                           overflow_checks)
             IN  IF verifier.tag = "Panic" THEN Panic
                 ELSE expect(Cpf_new(digits_array.v,
                                     <<verifier.value[1], verifier.value[2]>>,
                                     overflow_checks))

\* <Standard as Distribution<Cnpj>>::sample: 8 values taken for the base,
\* then 4 for the branch.
Cnpj_sample(drawn, overflow_checks) ==
    LET digits_array == try_into_array(Some(take(drawn, 8)), 8)
        branch_digits_array == try_into_array(Some(take(skip(drawn, 8), 4)), 4)
    IN  IF ~digits_array.some \/ ~branch_digits_array.some THEN Panic
        ELSE LET verifier == cnpj_calculate_verifier_digits(
                                 digits_array.v, branch_digits_array.v, overflow_checks)
             IN  IF verifier.tag = "Panic" THEN Panic
                 ELSE expect(Cnpj_new(digits_array.v, branch_digits_array.v,
                                      <<verifier.value[1], verifier.value[2]>>,
                                      overflow_checks))

\* <Branch as Distribution<Cnpj>>::sample: 8 values taken for the base, the
\* branch is self.0.
Branch_sample(self, drawn, overflow_checks) ==
    LET digits_array == try_into_array(Some(take(drawn, 8)), 8)
    IN  IF ~digits_array.some THEN Panic
        ELSE LET verifier == cnpj_calculate_verifier_digits(
                                 digits_array.v, self.digits, overflow_checks)
             IN  IF verifier.tag = "Panic" THEN Panic
                 ELSE expect(Cnpj_new(digits_array.v, self.digits,
                                      <<verifier.value[1], verifier.value[2]>>,
                                      overflow_checks))

(***************************************************************************)
(* Display                                                                 *)
(***************************************************************************)
\* u8::to_string: the decimal digits of n, without padding.
u8_to_string(n) ==
    IF n < 10 THEN <<AsciiDigitChars[n + 1]>>
    ELSE IF n < 100 THEN <<AsciiDigitChars[(n \div 10) + 1], AsciiDigitChars[(n % 10) + 1]>>
    ELSE <<AsciiDigitChars[(n \div 100) + 1], AsciiDigitChars[((n \div 10) % 10) + 1],
           AsciiDigitChars[(n % 10) + 1]>>

RECURSIVE join_to_string(_)
\* join_to_string!: every item's to_string, concatenated without separator.
join_to_string(items) ==
    IF items = <<>> THEN <<>>
    ELSE u8_to_string(Head(items)) \o join_to_string(Tail(items))

\* The mutant of Cpf_fmt: the middle group starts one digit early.
Cpf_fmt_middle_early(self) ==
    LET f3 == join_to_string(SubSeq(self.digits, 1, 3))
        m3 == join_to_string(SubSeq(self.digits, 3, 5))
        e3 == join_to_string(SubSeq(self.digits, 7, 9))
        verifier == join_to_string(self.verifier_digits)
    IN  f3 \o <<".">> \o m3 \o <<".">> \o e3 \o <<"-">> \o verifier

\* <Cpf as Display>::fmt
Cpf_fmt(self) ==
    LET f3 == join_to_string(SubSeq(self.digits, 1, 3))
        m3 == join_to_string(SubSeq(self.digits, 4, 6))
        e3 == join_to_string(SubSeq(self.digits, 7, 9))
        verifier == join_to_string(self.verifier_digits)
    IN  f3 \o <<".">> \o m3 \o <<".">> \o e3 \o <<"-">> \o verifier

\* <Cnpj as Display>::fmt
Cnpj_fmt(self) ==
    LET f3 == join_to_string(SubSeq(self.digits, 1, 2))
        m3 == join_to_string(SubSeq(self.digits, 3, 5))
        e3 == join_to_string(SubSeq(self.digits, 6, 8))
        branch == join_to_string(self.branch_digits)
        verifier == join_to_string(self.verifier_digits)
    IN  f3 \o <<".">> \o m3 \o <<".">> \o e3 \o <<"/">> \o branch \o <<"-">> \o verifier

(***************************************************************************)
(* The arguments the calls are explored on.  The seeds are the numbers the *)
(* crate's documentation uses, and 111.111.111-11; around each seed, every *)
(* array that differs from it in at most one place.                        *)
(***************************************************************************)
Digits == 0..9

Pairs == {<<a, b>> : a \in Digits, b \in Digits}

EditOne(seq) == {seq} \cup {[seq EXCEPT ![i] = v] : i \in 1..Len(seq), v \in Digits}

CpfSeeds ==
    { [digits |-> <<1, 2, 3, 4, 5, 6, 7, 8, 9>>, verifier_digits |-> <<0, 9>>],
      [digits |-> <<3, 1, 0, 1, 2, 6, 6, 5, 0>>, verifier_digits |-> <<5, 4>>],
      [digits |-> <<1, 1, 1, 1, 1, 1, 1, 1, 1>>, verifier_digits |-> <<1, 1>>] }

CnpjSeeds ==
    { [digits |-> <<5, 3, 8, 7, 1, 1, 4, 3>>, branch_digits |-> <<0, 0, 0, 1>>,
       verifier_digits |-> <<3, 5>>],
      [digits |-> <<1, 2, 3, 4, 5, 6, 7, 8>>, branch_digits |-> <<9, 0, 1, 2>>,
       verifier_digits |-> <<3, 0>>],
      [digits |-> <<8, 0, 9, 0, 6, 4, 0, 4>>, branch_digits |-> <<0, 0, 0, 3>>,
       verifier_digits |-> <<8, 8>>] }

CpfBases == UNION {EditOne(s.digits) : s \in CpfSeeds}

\* Base and branch together, as one array of 12.
CnpjBases == UNION {EditOne(s.digits \o s.branch_digits) : s \in CnpjSeeds}

\* u8 values above 9: the least of them and the greatest.
AboveNine == {10, 255}

\* Arrays with values above 9: one value of a documented array replaced, and
\* every value replaced.
OutOfBounds(seq) ==
    {[seq EXCEPT ![i] = v] : i \in 1..Len(seq), v \in AboveNine}
        \cup {[i \in 1..Len(seq) |-> 255]}

CpfNewDigits == CpfBases \cup OutOfBounds(<<1, 2, 3, 4, 5, 6, 7, 8, 9>>)

CnpjNewDigits == CnpjBases \cup OutOfBounds(<<5, 3, 8, 7, 1, 1, 4, 3, 0, 0, 0, 1>>)

NewPairs == Pairs \cup OutOfBounds(<<0, 9>>) \cup OutOfBounds(<<3, 5>>)

\* The u16 numbers a branch is made from: every number of four digits, the
\* numbers next above them, and the greatest u16.
BranchNumbers == (0..10050) \cup {65535}

\* The branches a client can hold: Branch's field is private, so they are
\* what first, new and from_u8 return in Ok.
Branches ==
    {Branch_first}
        \cup {Branch_new(d).value : d \in EditOne(<<0, 0, 0, 1>>)}
        \cup {Branch_from_u8(n).value : n \in {0, 4, 12, 9012, 9999}}

\* Runs of one digit, of every length up to MaxLen.
DigitRuns == {[i \in 1..n |-> d] : n \in 0..MaxLen, d \in Digits}

\* Arrays for the functions that take an array of any length.
DigitArrays ==
    DigitRuns \cup CpfBases \cup CnpjBases
        \cup {b \o <<d>> : b \in CpfBases \cup CnpjBases, d \in Digits}
        \cup {SubSeq(s.digits, 1, n) : s \in CpfSeeds, n \in 1..8}
        \cup UNION {OutOfBounds([i \in 1..n |-> 9]) : n \in {9, 10, 12, 13}}

\* What a call returned, or v when it did not return.
ValueOr(r, v) == IF r.tag = "Returned" THEN r.value ELSE v

\* The numbers whose renderings are parsed: every check pair beside a seed's
\* base, and every explored base beside the seed's check pair and beside
\* its own check pair.
CpfNumbers ==
    {[digits |-> s.digits, verifier_digits |-> v] : s \in CpfSeeds, v \in Pairs}
        \cup UNION {{[digits |-> b, verifier_digits |-> s.verifier_digits] :
                        b \in EditOne(s.digits)} : s \in CpfSeeds}
        \cup {[digits |-> b, verifier_digits |->
                  ValueOr(cpf_calculate_verifier_digits(b, FALSE), <<0, 0>>)] :
                 b \in CpfBases}

CnpjNumbers ==
    {[digits |-> s.digits, branch_digits |-> s.branch_digits, verifier_digits |-> v] :
        s \in CnpjSeeds, v \in Pairs}
        \cup UNION {{[digits |-> SubSeq(b, 1, 8), branch_digits |-> SubSeq(b, 9, 12),
                      verifier_digits |-> s.verifier_digits] :
                        b \in EditOne(s.digits \o s.branch_digits)} : s \in CnpjSeeds}
        \cup {[digits |-> SubSeq(b, 1, 8), branch_digits |-> SubSeq(b, 9, 12),
               verifier_digits |-> ValueOr(cnpj_calculate_verifier_digits(
                   SubSeq(b, 1, 8), SubSeq(b, 9, 12), FALSE), <<0, 0>>)] :
                 b \in CnpjBases}

\* The digits of a number written without punctuation.
DigitsOnly(digits) == join_to_string(digits)

\* Characters put into, and in place of, the characters of a seed's text.
EditChars == {"0", "7", ".", "-", "/", "a", " ", "U+0663"}

EditText(t) ==
    {[t EXCEPT ![i] = c] : i \in 1..Len(t), c \in EditChars}
        \cup {SubSeq(t, 1, i) \o <<c>> \o SubSeq(t, i + 1, Len(t)) :
                 i \in 0..Len(t), c \in EditChars}
        \cup {SubSeq(t, 1, i - 1) \o SubSeq(t, i + 1, Len(t)) : i \in 1..Len(t)}
        \cup {<<c>> \o t \o <<d>> : c \in EditChars, d \in EditChars}
        \cup {[i \in 1..Len(t) |-> IF is_ascii_digit(t[i]) THEN "U+0663" ELSE t[i]]}
        \cup {SubSeq(t, 1, n) : n \in 0..Len(t)}

SeedTexts ==
    UNION {{Cpf_fmt(s), DigitsOnly(s.digits \o s.verifier_digits)} : s \in CpfSeeds}
        \cup UNION {{Cnpj_fmt(s),
                     DigitsOnly(s.digits \o s.branch_digits \o s.verifier_digits)} :
                    s \in CnpjSeeds}

Texts ==
    UNION {{Cpf_fmt(n), DigitsOnly(n.digits \o n.verifier_digits)} : n \in CpfNumbers}
        \cup UNION {{Cnpj_fmt(n),
                     DigitsOnly(n.digits \o n.branch_digits \o n.verifier_digits)} :
                    n \in CnpjNumbers}
        \cup UNION {EditText(t) : t \in SeedTexts}
        \cup {[i \in 1..n |-> c] : n \in 0..MaxLen, c \in {"0", "7"}}

(***************************************************************************)
(* The calls.  A client makes one call; the build's overflow checks are    *)
(* on or off.                                                              *)
(***************************************************************************)
NoCall == [fn |-> "none"]

Init ==
    /\ call = NoCall
    /\ ret = [tag |-> "None"]

CallCpfNew ==
    /\ call = NoCall
    /\ \E digits \in CpfNewDigits, verifier_digits \in NewPairs,
          overflow_checks \in BOOLEAN :
        /\ call' = [fn |-> "Cpf::new", digits |-> digits,
                    verifier_digits |-> verifier_digits]
        /\ ret' = Cpf_new(digits, verifier_digits, overflow_checks)

CallCnpjNew ==
    /\ call = NoCall
    /\ \E b \in CnpjNewDigits, verifier_digits \in NewPairs,
          overflow_checks \in BOOLEAN :
        /\ call' = [fn |-> "Cnpj::new", digits |-> SubSeq(b, 1, 8),
                    branch_digits |-> SubSeq(b, 9, 12),
                    verifier_digits |-> verifier_digits]
        /\ ret' = Cnpj_new(SubSeq(b, 1, 8), SubSeq(b, 9, 12), verifier_digits,
                           overflow_checks)

CallCpfParseStr ==
    /\ call = NoCall
    /\ \E text \in Texts, overflow_checks \in BOOLEAN :
        /\ call' = [fn |-> "Cpf::parse_str", text |-> text]
        /\ ret' = Cpf_parse_str(text, overflow_checks)

CallCnpjParseStr ==
    /\ call = NoCall
    /\ \E text \in Texts, overflow_checks \in BOOLEAN :
        /\ call' = [fn |-> "Cnpj::parse_str", text |-> text]
        /\ ret' = Cnpj_parse_str(text, overflow_checks)

CallCpfCalculateVerifierDigit ==
    /\ call = NoCall
    /\ \E cpf_digits \in DigitArrays, overflow_checks \in BOOLEAN :
        /\ call' = [fn |-> "cpf::calculate_verifier_digit", digits |-> cpf_digits]
        /\ ret' = cpf_calculate_verifier_digit(cpf_digits, overflow_checks)

CallCpfCalculateVerifierDigits ==
    /\ call = NoCall
    /\ \E digits \in CpfBases, overflow_checks \in BOOLEAN :
        /\ call' = [fn |-> "cpf::calculate_verifier_digits", digits |-> digits]
        /\ ret' = cpf_calculate_verifier_digits(digits, overflow_checks)

CallCnpjCalculateVerifierDigit ==
    /\ call = NoCall
    /\ \E cnpj_digits \in DigitArrays, overflow_checks \in BOOLEAN :
        /\ call' = [fn |-> "cnpj::calculate_verifier_digit", digits |-> cnpj_digits]
        /\ ret' = cnpj_calculate_verifier_digit(cnpj_digits, overflow_checks)

CallCnpjCalculateVerifierDigits ==
    /\ call = NoCall
    /\ \E b \in CnpjBases, overflow_checks \in BOOLEAN :
        /\ call' = [fn |-> "cnpj::calculate_verifier_digits", digits |-> SubSeq(b, 1, 8),
                    branch_digits |-> SubSeq(b, 9, 12)]
        /\ ret' = cnpj_calculate_verifier_digits(SubSeq(b, 1, 8), SubSeq(b, 9, 12),
                                                 overflow_checks)

CallGetMultiplierValues ==
    /\ call = NoCall
    /\ \E amount \in 0..MaxLen :
        /\ call' = [fn |-> "cnpj::get_multiplier_values", amount |-> amount]
        /\ ret' = Returned(get_multiplier_values(amount))

\* A client that was returned Ok(x) renders x (ToString, through Display).
CallCpfToString ==
    /\ call.fn \in {"Cpf::new", "Cpf::parse_str"}
    /\ ret.tag = "Returned"
    /\ ret.value.tag = "Ok"
    /\ call' = [fn |-> "Cpf::to_string", self |-> ret.value.value]
    /\ ret' = Returned(Cpf_fmt(ret.value.value))

CallCnpjToString ==
    /\ call.fn \in {"Cnpj::new", "Cnpj::parse_str"}
    /\ ret.tag = "Returned"
    /\ ret.value.tag = "Ok"
    /\ call' = [fn |-> "Cnpj::to_string", self |-> ret.value.value]
    /\ ret' = Returned(Cnpj_fmt(ret.value.value))

\* The client parses the rendering it was given; rendering_of remembers the
\* value the text was rendered from.
CallCpfParseRendering ==
    /\ call.fn = "Cpf::to_string"
    /\ \E overflow_checks \in BOOLEAN :
        /\ call' = [fn |-> "Cpf::parse_str", text |-> ret.value,
                    rendering_of |-> call.self]
        /\ ret' = Cpf_parse_str(ret.value, overflow_checks)

CallCnpjParseRendering ==
    /\ call.fn = "Cnpj::to_string"
    /\ \E overflow_checks \in BOOLEAN :
        /\ call' = [fn |-> "Cnpj::parse_str", text |-> ret.value,
                    rendering_of |-> call.self]
        /\ ret' = Cnpj_parse_str(ret.value, overflow_checks)

\* The fields of Cpf and Cnpj are public: a client can write a value as a
\* struct literal, with any u8 in any place, without going through new.
CallCpfStructLiteral ==
    /\ call = NoCall
    /\ \E n \in CpfNumbers \cup {[digits |-> d, verifier_digits |-> <<0, 9>>] :
                                    d \in OutOfBounds(<<1, 2, 3, 4, 5, 6, 7, 8, 9>>)} :
        /\ call' = [fn |-> "Cpf { .. }", digits |-> n.digits,
                    verifier_digits |-> n.verifier_digits]
        /\ ret' = Returned([digits |-> n.digits, verifier_digits |-> n.verifier_digits])

CallCnpjStructLiteral ==
    /\ call = NoCall
    /\ \E n \in CnpjNumbers :
        /\ call' = [fn |-> "Cnpj { .. }", digits |-> n.digits,
                    branch_digits |-> n.branch_digits,
                    verifier_digits |-> n.verifier_digits]
        /\ ret' = Returned([digits |-> n.digits, branch_digits |-> n.branch_digits,
                            verifier_digits |-> n.verifier_digits])

\* A client that was returned Ok(x) assigns to a place of x.verifier_digits.
CallCpfAssignField ==
    /\ call.fn \in {"Cpf::new", "Cpf::parse_str"}
    /\ ret.tag = "Returned"
    /\ ret.value.tag = "Ok"
    /\ \E i \in 1..2, v \in {0, 9, 255} :
        /\ call' = [fn |-> "Cpf.verifier_digits[i] = v", self |-> ret.value.value,
                    index |-> i - 1, v |-> v]
        /\ ret' = Returned([ret.value.value EXCEPT !.verifier_digits[i] = v])

CallCnpjAssignField ==
    /\ call.fn \in {"Cnpj::new", "Cnpj::parse_str"}
    /\ ret.tag = "Returned"
    /\ ret.value.tag = "Ok"
    /\ \E i \in 1..2, v \in {0, 9, 255} :
        /\ call' = [fn |-> "Cnpj.verifier_digits[i] = v", self |-> ret.value.value,
                    index |-> i - 1, v |-> v]
        /\ ret' = Returned([ret.value.value EXCEPT !.verifier_digits[i] = v])

CallBranchFirst ==
    /\ call = NoCall
    /\ call' = [fn |-> "Branch::first"]
    /\ ret' = Returned(Branch_first)

CallBranchNew ==
    /\ call = NoCall
    /\ \E branch_digits \in EditOne(<<0, 0, 0, 1>>) \cup OutOfBounds(<<0, 0, 0, 1>>) :
        /\ call' = [fn |-> "Branch::new", branch_digits |-> branch_digits]
        /\ ret' = Returned(Branch_new(branch_digits))

CallBranchFromU8 ==
    /\ call = NoCall
    /\ \E branch_number \in BranchNumbers :
        /\ call' = [fn |-> "Branch::from_u8", branch_number |-> branch_number]
        /\ ret' = Returned(Branch_from_u8(branch_number))

CallCpfSample ==
    /\ call = NoCall
    /\ \E drawn \in CpfBases, overflow_checks \in BOOLEAN :
        /\ call' = [fn |-> "Standard::sample::<Cpf>", drawn |-> drawn]
        /\ ret' = Cpf_sample(drawn, overflow_checks)

CallCnpjSample ==
    /\ call = NoCall
    /\ \E drawn \in CnpjBases, overflow_checks \in BOOLEAN :
        /\ call' = [fn |-> "Standard::sample::<Cnpj>", drawn |-> drawn]
        /\ ret' = Cnpj_sample(drawn, overflow_checks)

CallBranchSample ==
    /\ call = NoCall
    /\ \E self \in Branches, s \in CnpjSeeds, overflow_checks \in BOOLEAN :
        \E drawn \in EditOne(s.digits) :
            /\ call' = [fn |-> "Branch::sample", self |-> self, drawn |-> drawn]
            /\ ret' = Branch_sample(self, drawn, overflow_checks)

\* The arrays append and append_array are called on: the beginnings and the
\* ends of a documented array, whose elements all differ.
Pieces == {SubSeq(<<1, 2, 3, 4, 5, 6, 7, 8, 9>>, m, n) : m \in 1..10, n \in 0..9}

CallAppend ==
    /\ call = NoCall
    /\ \E self \in Pieces, element \in Digits :
        /\ call' = [fn |-> "append", self |-> self, element |-> element]
        /\ ret' = append(self, element)

CallAppendArray ==
    /\ call = NoCall
    /\ \E self \in Pieces, array \in Pieces :
        /\ call' = [fn |-> "append_array", self |-> self, array |-> array]
        /\ ret' = append_array(self, array)

Next ==
    \/ CallCpfNew
    \/ CallCnpjNew
    \/ CallCpfParseStr
    \/ CallCnpjParseStr
    \/ CallCpfCalculateVerifierDigit
    \/ CallCpfCalculateVerifierDigits
    \/ CallCnpjCalculateVerifierDigit
    \/ CallCnpjCalculateVerifierDigits
    \/ CallGetMultiplierValues
    \/ CallCpfToString
    \/ CallCnpjToString
    \/ CallCpfParseRendering
    \/ CallCnpjParseRendering
    \/ CallCpfStructLiteral
    \/ CallCnpjStructLiteral
    \/ CallCpfAssignField
    \/ CallCnpjAssignField
    \/ CallBranchFirst
    \/ CallBranchNew
    \/ CallBranchFromU8
    \/ CallCpfSample
    \/ CallCnpjSample
    \/ CallBranchSample
    \/ CallAppend
    \/ CallAppendArray

Spec == Init /\ [][Next]_vars

(***************************************************************************)
(* Properties.                                                             *)
(***************************************************************************)
InRange(seq) == \A i \in 1..Len(seq) : seq[i] \in 0..9

IsCpfCall == call.fn = "Cpf::new"

IsCnpjCall == call.fn = "Cnpj::new"

\* C1: for every base (and branch) and every supplied check pair with all
\* values in 0..=9, Cpf::new / Cnpj::new returns Ok exactly when the supplied
\* pair is the pair calculate_verifier_digits returns for the base (+branch),
\* and InvalidCpfDigits / InvalidCnpjDigits otherwise; the Ok value carries
\* exactly the supplied base, branch and check digits.
C1_NewOkIffCheckPairMatches ==
    /\ (IsCpfCall /\ InRange(call.digits) /\ InRange(call.verifier_digits)) =>
        IF call.verifier_digits =
               cpf_calculate_verifier_digits(call.digits, FALSE).value
        THEN ret = Returned(Ok([digits |-> call.digits,
                                verifier_digits |-> call.verifier_digits]))
        ELSE ret = Returned(Err("InvalidCpfDigits"))
    /\ (IsCnpjCall /\ InRange(call.digits) /\ InRange(call.branch_digits)
            /\ InRange(call.verifier_digits)) =>
        IF call.verifier_digits =
               cnpj_calculate_verifier_digits(call.digits, call.branch_digits,
                                              FALSE).value
        THEN ret = Returned(Ok([digits |-> call.digits,
                                branch_digits |-> call.branch_digits,
                                verifier_digits |-> call.verifier_digits]))
        ELSE ret = Returned(Err("InvalidCnpjDigits"))

\* C1 happens: a Cnpj::new call with a base other than a documented one
\* returned Ok.
C1_Witness ==
    /\ IsCnpjCall
    /\ call.digits = <<5, 3, 8, 7, 1, 1, 4, 9>>
    /\ ret.tag = "Returned"
    /\ ret.value.tag = "Ok"

\* The check digit of the CPF family as the specification words it: weight
\* (S+1)-i at position i counted from 0, the weighted sum mod 11, times 10,
\* mod 11 again, and 10 replaced by 0.  Plain integers, no width.
CpfCheckDigit(d) ==
    LET S == Len(d)
        weighted == sum_of([i \in 1..S |-> d[i] * ((S + 1) - (i - 1))])
        pre == ((weighted % 11) * 10) % 11
    IN  IF pre = 10 THEN 0 ELSE pre

C2_Body(max_len) ==
    /\ (/\ call.fn = "cpf::calculate_verifier_digit"
        /\ InRange(call.digits)
        /\ Len(call.digits) <= max_len) =>
        ret = Returned(CpfCheckDigit(call.digits))
    /\ (call.fn = "cpf::calculate_verifier_digits" /\ InRange(call.digits)) =>
        LET d1 == CpfCheckDigit(call.digits)
            d2 == CpfCheckDigit(call.digits \o <<d1>>)
        IN  ret = Returned(<<d1, d2>>)

\* C2 as claimed: on a sequence of any length S with digits in 0..=9,
\* cpf::calculate_verifier_digit returns the check digit of the weighted sum
\* (weights (S+1)-i; sum mod 11, times 10, mod 11; 10 becomes 0), and
\* cpf::calculate_verifier_digits returns (d1, d2) with d1 over the 9 base
\* digits and d2 over the base followed by d1.
C2_AnyLength == C2_Body(MaxLen + 1)

\* C2 amended: the same, for sequences of at most 36 digits (9 and 10 among
\* them), where ten times the weighted sum still fits in a u16.
C2_UpTo36Digits == C2_Body(36)

\* C2 happens: the first check digit of 123456789 is 0, its pre-digit being 10.
C2_Witness ==
    /\ call.fn = "cpf::calculate_verifier_digit"
    /\ call.digits = <<1, 2, 3, 4, 5, 6, 7, 8, 9>>
    /\ ret = Returned(0)

\* The check digit of the CNPJ family: the weight of the k-th digit from the
\* end (k = 0 for the last) is 2 + (k mod 8); the weighted sum mod 11 gives 0
\* when less than 2 and 11 minus itself otherwise.
CnpjCheckDigit(d) ==
    LET S == Len(d)
        remainder == sum_of([i \in 1..S |-> d[i] * (2 + ((S - i) % 8))]) % 11
    IN  IF remainder < 2 THEN 0 ELSE 11 - remainder

\* C3: cnpj::calculate_verifier_digit returns 0 when the weighted digit sum
\* mod 11 is less than 2 and 11 minus that remainder otherwise;
\* cnpj::calculate_verifier_digits returns (d1, d2), d1 over the 12 values
\* base ++ branch and d2 over the 13 values base ++ branch ++ d1.
C3_CnpjCheckDigits ==
    /\ (call.fn = "cnpj::calculate_verifier_digit" /\ InRange(call.digits)) =>
        ret = Returned(CnpjCheckDigit(call.digits))
    /\ (/\ call.fn = "cnpj::calculate_verifier_digits"
        /\ InRange(call.digits)
        /\ InRange(call.branch_digits)) =>
        LET twelve == call.digits \o call.branch_digits
            d1 == CnpjCheckDigit(twelve)
            d2 == CnpjCheckDigit(twelve \o <<d1>>)
        IN  /\ Len(twelve) = 12
            /\ ret = Returned(<<d1, d2>>)

\* C3 happens: for 12345678/9012 the pair is (3, 0), the second digit coming
\* from a remainder below 2.
C3_Witness ==
    /\ call.fn = "cnpj::calculate_verifier_digits"
    /\ call.digits = <<1, 2, 3, 4, 5, 6, 7, 8>>
    /\ call.branch_digits = <<9, 0, 1, 2>>
    /\ ret = Returned(<<3, 0>>)

\* C4: get_multiplier_values(12) is [5,4,3,2,9,8,7,6,5,4,3,2] and
\* get_multiplier_values(13) is [6,5,4,3,2,9,8,7,6,5,4,3,2]; in general the
\* list has length n and its k-th element from the end is 2 + (k mod 8).
C4_MultiplierValues ==
    call.fn = "cnpj::get_multiplier_values" =>
        /\ ret.tag = "Returned"
        /\ Len(ret.value) = call.amount
        /\ \A k \in 0..(call.amount - 1) :
               ret.value[call.amount - k] = 2 + (k % 8)
        /\ call.amount = 12 => ret.value = <<5, 4, 3, 2, 9, 8, 7, 6, 5, 4, 3, 2>>
        /\ call.amount = 13 => ret.value = <<6, 5, 4, 3, 2, 9, 8, 7, 6, 5, 4, 3, 2>>

\* C4 happens: the list for 13 digits was computed and begins with 6.
C4_Witness ==
    /\ call.fn = "cnpj::get_multiplier_values"
    /\ call.amount = 13
    /\ ret.value[1] = 6
    /\ ret.value[13] = 2

RECURSIVE CycleTake(_, _, _)
\* The first n values of the cycle through seq, starting at its index from.
CycleTake(seq, from, n) ==
    IF n = 0 THEN <<>>
    ELSE <<seq[from]>> \o CycleTake(seq, IF from = Len(seq) THEN 1 ELSE from + 1, n - 1)

RECURSIVE Reversed(_)
Reversed(seq) == IF seq = <<>> THEN <<>> ELSE Reversed(Tail(seq)) \o <<Head(seq)>>

\* C5 as claimed: get_multiplier_values(n) is the list got by cycling
\* 9,8,7,6,5,4,3,2, taking the first n values and reversing them.
C5_CycleFromNine ==
    call.fn = "cnpj::get_multiplier_values" =>
        ret = Returned(Reversed(CycleTake(<<9, 8, 7, 6, 5, 4, 3, 2>>, 1, call.amount)))

\* C5 amended: get_multiplier_values(n) is the list got by cycling
\* 2,3,4,5,6,7,8,9, taking the first n values and reversing them.
C5_CycleFromTwo ==
    call.fn = "cnpj::get_multiplier_values" =>
        ret = Returned(Reversed(CycleTake(<<2, 3, 4, 5, 6, 7, 8, 9>>, 1, call.amount)))

\* C5 happens: the list for 12 digits, longer than one cycle, was computed.
C5_Witness ==
    /\ call.fn = "cnpj::get_multiplier_values"
    /\ call.amount = 12
    /\ ret = Returned(<<5, 4, 3, 2, 9, 8, 7, 6, 5, 4, 3, 2>>)

\* The value of an ASCII digit character.
DigitValue(c) == (CHOOSE n \in 1..10 : AsciiDigitChars[n] = c) - 1

\* The text is exactly n ASCII digits.
IsDigitsOnly(text, n) ==
    /\ Len(text) = n
    /\ \A i \in 1..n : is_ascii_digit(text[i])

\* The text is, as a whole, of the shape: an ASCII digit where the shape has
\* "N", the shape's own character elsewhere.
HasShape(text, shape) ==
    /\ Len(text) = Len(shape)
    /\ \A i \in 1..Len(shape) :
           IF shape[i] = "N" THEN is_ascii_digit(text[i]) ELSE text[i] = shape[i]

\* NNN.NNN.NNN-NN
CpfShape ==
    <<"N", "N", "N", ".", "N", "N", "N", ".", "N", "N", "N", "-", "N", "N">>

\* NN.NNN.NNN/NNNN-NN
CnpjShape ==
    <<"N", "N", ".", "N", "N", "N", ".", "N", "N", "N", "/",
      "N", "N", "N", "N", "-", "N", "N">>

\* The digits of a text of a shape, in order of appearance.
ShapeDigits(text, shape) ==
    LET places == SelectSeq([i \in 1..Len(shape) |-> i], LAMBDA i : shape[i] = "N")
    IN  [k \in 1..Len(places) |-> DigitValue(text[places[k]])]

\* C6: for every sequence d of 11 decimal digits, Cpf::parse_str of the
\* digits-only text and of the punctuated text d0d1d2.d3d4d5.d6d7d8-d9d10 both
\* return exactly Cpf::new([d0..d8], [d9, d10]); "123.456.789-09" gives digits
\* [1,2,3,4,5,6,7,8,9] and verifier_digits [0,9].
C6_CpfParseIsNewOfDigits ==
    call.fn = "Cpf::parse_str" =>
        /\ IsDigitsOnly(call.text, 11) =>
            LET d == [i \in 1..11 |-> DigitValue(call.text[i])]
            IN  ret = Cpf_new(SubSeq(d, 1, 9), SubSeq(d, 10, 11), FALSE)
        /\ HasShape(call.text, CpfShape) =>
            LET d == ShapeDigits(call.text, CpfShape)
            IN  /\ Len(d) = 11
                /\ ret = Cpf_new(SubSeq(d, 1, 9), SubSeq(d, 10, 11), FALSE)
        /\ call.text = <<"1", "2", "3", ".", "4", "5", "6", ".", "7", "8", "9", "-",
                         "0", "9">> =>
            ret = Returned(Ok([digits |-> <<1, 2, 3, 4, 5, 6, 7, 8, 9>>,
                               verifier_digits |-> <<0, 9>>]))

\* C6 happens: "123.456.789-09" was parsed and gave Ok.
C6_Witness ==
    /\ call.fn = "Cpf::parse_str"
    /\ call.text = <<"1", "2", "3", ".", "4", "5", "6", ".", "7", "8", "9", "-",
                     "0", "9">>
    /\ ret.tag = "Returned"
    /\ ret.value.tag = "Ok"

\* C7: for every sequence d of 14 decimal digits, Cnpj::parse_str of the
\* digits-only text and of the punctuated text
\* d0d1.d2d3d4.d5d6d7/d8d9d10d11-d12d13 both return exactly
\* Cnpj::new([d0..d7], [d8..d11], [d12, d13]); "53.871.143/0001-35" gives
\* digits [5,3,8,7,1,1,4,3], branch [0,0,0,1], verifier [3,5].
C7_CnpjParseIsNewOfDigits ==
    call.fn = "Cnpj::parse_str" =>
        /\ IsDigitsOnly(call.text, 14) =>
            LET d == [i \in 1..14 |-> DigitValue(call.text[i])]
            IN  ret = Cnpj_new(SubSeq(d, 1, 8), SubSeq(d, 9, 12), SubSeq(d, 13, 14),
                               FALSE)
        /\ HasShape(call.text, CnpjShape) =>
            LET d == ShapeDigits(call.text, CnpjShape)
            IN  /\ Len(d) = 14
                /\ ret = Cnpj_new(SubSeq(d, 1, 8), SubSeq(d, 9, 12),
                                  SubSeq(d, 13, 14), FALSE)
        /\ call.text = <<"5", "3", ".", "8", "7", "1", ".", "1", "4", "3", "/",
                         "0", "0", "0", "1", "-", "3", "5">> =>
            ret = Returned(Ok([digits |-> <<5, 3, 8, 7, 1, 1, 4, 3>>,
                               branch_digits |-> <<0, 0, 0, 1>>,
                               verifier_digits |-> <<3, 5>>]))

\* C7 happens: "53.871.143/0001-35" was parsed and gave Ok.
C7_Witness ==
    /\ call.fn = "Cnpj::parse_str"
    /\ call.text = <<"5", "3", ".", "8", "7", "1", ".", "1", "4", "3", "/",
                     "0", "0", "0", "1", "-", "3", "5">>
    /\ ret.tag = "Returned"
    /\ ret.value.tag = "Ok"

AllOnesText == <<"1", "1", "1", ".", "1", "1", "1", ".", "1", "1", "1", "-", "1", "1">>

AllOnes == <<1, 1, 1, 1, 1, 1, 1, 1, 1>>

\* C8 as claimed: Cpf::parse_str("111.111.111-11") returns InvalidCpfDigits,
\* the check digits computed for the base of nine ones differing from [1,1].
C8_AllOnesRejected ==
    /\ (call.fn = "Cpf::parse_str" /\ call.text = AllOnesText) =>
        ret = Returned(Err("InvalidCpfDigits"))
    /\ (call.fn = "cpf::calculate_verifier_digits" /\ call.digits = AllOnes) =>
        (ret.tag = "Returned" /\ ret.value # <<1, 1>>)

\* C8 amended: Cpf::parse_str("111.111.111-11") returns Ok with digits of nine
\* ones and verifier_digits [1,1], the check digits computed for that base
\* being (1, 1).
C8_AllOnesAccepted ==
    /\ (call.fn = "Cpf::parse_str" /\ call.text = AllOnesText) =>
        ret = Returned(Ok([digits |-> AllOnes, verifier_digits |-> <<1, 1>>]))
    /\ (call.fn = "cpf::calculate_verifier_digits" /\ call.digits = AllOnes) =>
        ret = Returned(<<1, 1>>)

\* C8 happens: "111.111.111-11" was parsed.
C8_Witness ==
    /\ call.fn = "Cpf::parse_str"
    /\ call.text = AllOnesText
    /\ ret.tag = "Returned"

IsParseCall == call.fn \in {"Cpf::parse_str", "Cnpj::parse_str"}

\* The errors of the parser that was called.
ParseErr(kind) ==
    IF call.fn = "Cpf::parse_str"
    THEN Returned(Err(IF kind = "Short" THEN "ShortCpfString"
                                        ELSE "InvalidCpfStringFormat"))
    ELSE Returned(Err(IF kind = "Short" THEN "ShortCnpjString"
                                        ELSE "InvalidCnpjStringFormat"))

\* The text is one or more characters, all of them ASCII digits.
IsAllDigits(text) ==
    /\ Len(text) >= 1
    /\ \A i \in 1..Len(text) : is_ascii_digit(text[i])

\* The text is one of the two accepted shapes of the parser that was called.
IsAcceptedShape ==
    IF call.fn = "Cpf::parse_str"
    THEN IsDigitsOnly(call.text, 11) \/ HasShape(call.text, CpfShape)
    ELSE IsDigitsOnly(call.text, 14) \/ HasShape(call.text, CnpjShape)

\* C9: text recognition is exact: every text that is neither a digits-only
\* string of exactly 11 (Cpf) / 14 (Cnpj) characters nor, as a whole, of the
\* punctuated form is never parsed to Ok; it gives ShortString when it is all
\* decimal digits and InvalidFormat otherwise, also when it merely contains the
\* punctuated pattern among extra leading or trailing characters.
C9_RecognitionIsExact ==
    (IsParseCall /\ ~IsAcceptedShape) =>
        IF IsAllDigits(call.text)
        THEN ret = ParseErr("Short")
        ELSE ret = ParseErr("Format")

C11_OutOfBoundsFirst ==
    /\ (IsCpfCall /\ (~InRange(call.digits) \/ ~InRange(call.verifier_digits))) =>
        ret = Returned(Err("DigitsOutOfBounds"))
    /\ (IsCnpjCall /\ (\/ ~InRange(call.digits)
                       \/ ~InRange(call.branch_digits)
                       \/ ~InRange(call.verifier_digits))) =>
        ret = Returned(Err("DigitsOutOfBounds"))

\* C11 happens: Cpf::new was called on a base of nine 255s, on which the
\* check-digit arithmetic overflows, and returned DigitsOutOfBounds.
C11_Witness ==
    /\ IsCpfCall
    /\ call.digits = [i \in 1..9 |-> 255]
    /\ cpf_calculate_verifier_digits(call.digits, TRUE).tag = "Panic"
    /\ ret = Returned(Err("DigitsOutOfBounds"))

\* The call parses a text that was rendered from a value.
ParsesRendering == IsParseCall /\ "rendering_of" \in DOMAIN call

\* C12: for every Cpf / Cnpj value x returned Ok by new or parse_str, the
\* Display rendering of x is exactly 14 characters NNN.NNN.NNN-NN (Cpf) / 18
\* characters NN.NNN.NNN/NNNN-NN (Cnpj), with the digits of x in order, and
\* parse_str of the rendering returns Ok(x).
C12_RoundTrip ==
    /\ call.fn = "Cpf::to_string" =>
        /\ ret.tag = "Returned"
        /\ Len(ret.value) = 14 /\ str_len(ret.value) = 14
        /\ HasShape(ret.value, CpfShape)
        /\ ShapeDigits(ret.value, CpfShape) = call.self.digits \o call.self.verifier_digits
    /\ call.fn = "Cnpj::to_string" =>
        /\ ret.tag = "Returned"
        /\ Len(ret.value) = 18 /\ str_len(ret.value) = 18
        /\ HasShape(ret.value, CnpjShape)
        /\ ShapeDigits(ret.value, CnpjShape) =
               call.self.digits \o call.self.branch_digits \o call.self.verifier_digits
    /\ ParsesRendering => ret = Returned(Ok(call.rendering_of))

\* C12 happens: the rendering of a Cnpj that Cnpj::new returned, other than a
\* documented one, was parsed back to that value.
C12_Witness ==
    /\ ParsesRendering
    /\ call.fn = "Cnpj::parse_str"
    /\ call.rendering_of.digits = <<5, 3, 8, 7, 1, 1, 4, 9>>
    /\ call.text[18] = "2"
    /\ ret = Returned(Ok(call.rendering_of))

\* The checksum invariant of a value: all digits in 0..=9 and the check pair
\* the one computed from the base (and branch).
IsValidNumber(x) ==
    /\ InRange(x.digits)
    /\ InRange(x.verifier_digits)
    /\ IF "branch_digits" \in DOMAIN x
       THEN /\ InRange(x.branch_digits)
            /\ x.verifier_digits =
                   cnpj_calculate_verifier_digits(x.digits, x.branch_digits, FALSE).value
       ELSE x.verifier_digits = cpf_calculate_verifier_digits(x.digits, FALSE).value

\* The values new and parse_str have returned in Ok.
ReturnedOk ==
    IF /\ call.fn \in {"Cpf::new", "Cpf::parse_str", "Cnpj::new", "Cnpj::parse_str"}
       /\ ret.tag = "Returned"
       /\ ret.value.tag = "Ok"
    THEN {ret.value.value}
    ELSE {}

\* The values the client has written or altered itself.
WrittenByClient ==
    IF call.fn \in {"Cpf { .. }", "Cnpj { .. }", "Cpf.verifier_digits[i] = v",
                    "Cnpj.verifier_digits[i] = v"}
    THEN {ret.value}
    ELSE {}

\* C13 as claimed: every Cpf / Cnpj value a client of the public interface
\* can come to hold has all digits in 0..=9 and verifier_digits equal to
\* calculate_verifier_digits of its digits (and branch_digits); there is no
\* way to obtain a value that violates this.
C13_EveryHeldValueIsValid ==
    \A x \in ReturnedOk \cup WrittenByClient : IsValidNumber(x)

\* C13 amended: every Cpf / Cnpj value returned Ok by new or parse_str has
\* all digits in 0..=9 and verifier_digits equal to calculate_verifier_digits
\* of its digits (and branch_digits).
C13_ReturnedValuesAreValid ==
    \A x \in ReturnedOk : IsValidNumber(x)

\* C13 happens: Cpf::parse_str returned Ok of a number parsed from a text.
C13_Witness ==
    /\ call.fn = "Cpf::parse_str"
    /\ ReturnedOk # {}
    /\ \E x \in ReturnedOk : x.digits = <<3, 1, 0, 1, 2, 6, 6, 5, 0>>

\* C14: Branch::from_u8(n) returns InvalidBranchNumber for every n > 9999
\* and, for every n in 0..=9999, Ok(Branch([a,b,c,d])) with a, b, c, d in
\* 0..=9 and 1000a + 100b + 10c + d = n (12 gives [0,0,1,2], 9999 gives
\* [9,9,9,9]), so that its inner Branch::new never fails; Branch::first() is
\* [0,0,0,1].
C14_BranchFromNumber ==
    /\ call.fn = "Branch::from_u8" =>
        IF call.branch_number > 9999
        THEN ret = Returned(Err("InvalidBranchNumber"))
        ELSE /\ ret.tag = "Returned"
             /\ ret.value.tag = "Ok"
             /\ LET d == ret.value.value.digits
                IN  /\ Len(d) = 4
                    /\ InRange(d)
                    /\ 1000 * d[1] + 100 * d[2] + 10 * d[3] + d[4] = call.branch_number
    /\ (call.fn = "Branch::from_u8" /\ call.branch_number = 12) =>
        ret = Returned(Ok(Branch(<<0, 0, 1, 2>>)))
    /\ (call.fn = "Branch::from_u8" /\ call.branch_number = 9999) =>
        ret = Returned(Ok(Branch(<<9, 9, 9, 9>>)))
    /\ call.fn = "Branch::first" => ret = Returned(Branch(<<0, 0, 0, 1>>))

\* C14 happens: Branch::from_u8 was called on 12 and returned the branch
\* 0012.
C14_Witness ==
    /\ call.fn = "Branch::from_u8"
    /\ call.branch_number = 12
    /\ ret = Returned(Ok(Branch(<<0, 0, 1, 2>>)))

\* The check digits as the documentation of the Cpf type writes them out:
\* digits[8] * 10 + digits[7] * 9 + ... + digits[0] * 2 for the first, and
\* digits[8] * 11 + ... + digits[0] * 3 + first * 2 for the second, each times
\* 10, mod 11, with 10 replaced by 0.  digits[k] of the text is d[k + 1] here.
DocCpfDigit(sum_of_mul) ==
    LET pre_digit == (sum_of_mul * 10) % 11
    IN  IF pre_digit = 10 THEN 0 ELSE pre_digit

DocCpfFirstDigit(d) == DocCpfDigit(sum_of([k \in 1..9 |-> d[k] * (k + 1)]))

DocCpfSecondDigit(d, first) ==
    DocCpfDigit(sum_of([k \in 1..9 |-> d[k] * (k + 2)]) + first * 2)

\* C15: for every 9-digit base, cpf::calculate_verifier_digits returns the
\* two numbers of the Cpf type documentation: the first from digits[8] * 10 +
\* digits[7] * 9 + ... + digits[0] * 2, the second from digits[8] * 11 + ... +
\* digits[0] * 3 + first * 2, each times 10, mod 11, with 10 replaced by 0.
C15_DigitsAsTypeDocumented ==
    (call.fn = "cpf::calculate_verifier_digits" /\ InRange(call.digits)) =>
        LET first == DocCpfFirstDigit(call.digits)
        IN  ret = Returned(<<first, DocCpfSecondDigit(call.digits, first)>>)

\* The second check digit as the documentation of the Cnpj type writes it
\* out: the sum of the first digit over again, digits[0..8] weighted 5, 4, 3,
\* 2, 9, 8, 7, 6 and the branch digits weighted 5, 4, 3, 2, mod 11, 0 if less
\* than 2 and 11 minus the remainder otherwise.
DocCnpjSecondDigit(digits, branch_num_digits) ==
    LET weights == <<5, 4, 3, 2, 9, 8, 7, 6, 5, 4, 3, 2>>
        all == digits \o branch_num_digits
        sum_of_mul_2 == sum_of([k \in 1..12 |-> all[k] * weights[k]])
        pre_second_digit == sum_of_mul_2 % 11
    IN  IF pre_second_digit < 2 THEN 0 ELSE 11 - pre_second_digit

\* C16: for every base and branch, the second number
\* cnpj::calculate_verifier_digits returns is the second verifier digit of
\* the Cnpj type documentation: the weighted sum of the first digit (base
\* weighted 5,4,3,2,9,8,7,6 and branch weighted 5,4,3,2, no term for the
\* first verifier digit), mod 11, 0 if less than 2, else 11 minus it.
C16_SecondDigitAsTypeDocumented ==
    (/\ call.fn = "cnpj::calculate_verifier_digits"
     /\ InRange(call.digits)
     /\ InRange(call.branch_digits)) =>
        /\ ret.tag = "Returned"
        /\ ret.value[2] = DocCnpjSecondDigit(call.digits, call.branch_digits)

IsSampleCall ==
    call.fn \in {"Standard::sample::<Cpf>", "Standard::sample::<Cnpj>", "Branch::sample"}

\* C17: sampling never fails its expect(): whatever digits in 0..=9 are
\* drawn, the sampled Cpf / Cnpj is returned, it carries the drawn digits,
\* its verifier_digits are calculate_verifier_digits of its own digits, and
\* a Cnpj sampled from a Branch carries exactly that branch's four digits.
C17_SamplingSucceeds ==
    /\ IsSampleCall =>
        /\ ret.tag = "Returned"
        /\ IsValidNumber(ret.value)
    /\ call.fn = "Standard::sample::<Cpf>" => ret.value.digits = call.drawn
    /\ call.fn = "Standard::sample::<Cnpj>" =>
        /\ ret.value.digits = SubSeq(call.drawn, 1, 8)
        /\ ret.value.branch_digits = SubSeq(call.drawn, 9, 12)
    /\ call.fn = "Branch::sample" =>
        /\ ret.value.digits = call.drawn
        /\ ret.value.branch_digits = call.self.digits

\* C17 happens: a Cnpj was sampled from the branch 0004 of the documented
\* example.
C17_Witness ==
    /\ call.fn = "Branch::sample"
    /\ call.self = Branch(<<0, 0, 0, 4>>)
    /\ ret.tag = "Returned"
    /\ ret.value.branch_digits = <<0, 0, 0, 4>>

\* The typed errors of each entry point.
TypedErrors ==
    [fn \in {"Cpf::new", "Cnpj::new", "Cpf::parse_str", "Cnpj::parse_str"} |->
        IF fn = "Cpf::new" THEN {"DigitsOutOfBounds", "InvalidCpfDigits"}
        ELSE IF fn = "Cnpj::new" THEN {"DigitsOutOfBounds", "InvalidCnpjDigits"}
        ELSE IF fn = "Cpf::parse_str"
        THEN {"DigitsOutOfBounds", "InvalidCpfDigits", "ShortCpfString",
              "InvalidCpfStringFormat", "CouldNotConvertCpfToDigits"}
        ELSE {"DigitsOutOfBounds", "InvalidCnpjDigits", "ShortCnpjString",
              "InvalidCnpjStringFormat", "CouldNotConvertCnpjToDigits"}]

\* C18: for every text and every array of u8 values, Cpf::new, Cnpj::new,
\* Cpf::parse_str and Cnpj::parse_str return Ok or one of their typed errors
\* and never panic: neither the panic!() of append / append_array, nor an
\* index outside the weights, nor an arithmetic overflow is reached.
C18_EntryPointsReturn ==
    call.fn \in DOMAIN TypedErrors =>
        /\ ret.tag = "Returned"
        /\ \/ ret.value.tag = "Ok"
           \/ ret.value.tag = "Err" /\ ret.value.err \in TypedErrors[call.fn]

\* C18 happens: Cnpj::new was called with a branch of four 255s, without a
\* panic.
C18_Witness ==
    /\ IsCnpjCall
    /\ call.branch_digits = <<255, 255, 255, 255>>
    /\ ret.tag = "Returned"

\* C19: a.append_array(b) returns, without panicking, an array of length
\* M + N whose element i is a[i] for i < M and b[i - M] for M <= i < M + N;
\* a.append(e) returns an array of length M + 1 whose first M elements are
\* those of a in order and whose last is e.
C19_AppendKeepsOrder ==
    /\ call.fn = "append_array" =>
        LET M == Len(call.self)
            N == Len(call.array)
        IN  /\ ret.tag = "Returned"
            /\ Len(ret.value) = M + N
            /\ \A i \in 1..M : ret.value[i] = call.self[i]
            /\ \A i \in (M + 1)..(M + N) : ret.value[i] = call.array[i - M]
    /\ call.fn = "append" =>
        LET M == Len(call.self)
        IN  /\ ret.tag = "Returned"
            /\ Len(ret.value) = M + 1
            /\ \A i \in 1..M : ret.value[i] = call.self[i]
            /\ ret.value[M + 1] = call.element

\* C19 happens: [1,2,3].append_array([7,8,9]) returned six elements.
C19_Witness ==
    /\ call.fn = "append_array"
    /\ call.self = <<1, 2, 3>>
    /\ call.array = <<7, 8, 9>>
    /\ ret.tag = "Returned"
    /\ Len(ret.value) = 6

\* The text passes the shape recognition of the parser that was called: all
\* ASCII digits and 11 (Cpf) / 14 (Cnpj) bytes long, or matched by the
\* parser's pattern.
PassesRecognition ==
    IF call.fn = "Cpf::parse_str"
    THEN \/ ONLY_NUMBERS_is_match(call.text) /\ str_len(call.text) = 11
         \/ regex_is_match(WELL_FORMATTED_CPF, call.text)
    ELSE \/ ONLY_NUMBERS_is_match(call.text) /\ str_len(call.text) = 14
         \/ regex_is_match(WELL_FORMATTED_CNPJ, call.text)

\* How many of the characters of the text are ASCII digits.
AsciiDigitCount(text) == Len(SelectSeq(text, is_ascii_digit))

\* C20: parse_str returns CouldNotConvertCpfToDigits /
\* CouldNotConvertCnpjToDigits exactly when the text passes shape recognition
\* and the number of its ASCII digits is not 11 (Cpf) / 14 (Cnpj); the
\* conversion of the characters that survive stripping never fails, all of
\* them being ASCII digits.
C20_CouldNotConvertIsWrongCount ==
    IsParseCall =>
        LET stripped == NOT_NUMBERS_replace_all(call.text)
            wanted == IF call.fn = "Cpf::parse_str" THEN 11 ELSE 14
            could_not == IF call.fn = "Cpf::parse_str"
                         THEN Returned(Err("CouldNotConvertCpfToDigits"))
                         ELSE Returned(Err("CouldNotConvertCnpjToDigits"))
        IN  /\ (ret = could_not) <=>
                   (PassesRecognition /\ AsciiDigitCount(call.text) # wanted)
            /\ \A i \in 1..Len(stripped) : is_ascii_digit(stripped[i])
            /\ convert_to_u8(stripped).some

\* C20 happens: Cpf::parse_str returned CouldNotConvertCpfToDigits for a text
\* that holds the punctuated form and twelve ASCII digits.
C20_Witness ==
    /\ call.fn = "Cpf::parse_str"
    /\ regex_is_match(WELL_FORMATTED_CPF, call.text)
    /\ AsciiDigitCount(call.text) = 12
    /\ ret = Returned(Err("CouldNotConvertCpfToDigits"))

\* C21: for every input with all values in 0..=9, at lengths 9 and 10 (Cpf)
\* and 12 and 13 (Cnpj), calculate_verifier_digit returns a value in 0..=9
\* and no intermediate leaves its type: the weighted sum and the sum times 10
\* are at most 5850 and so fit u16, and 11 minus the remainder is taken only
\* of a remainder in 2..=10; on nine 255s the sum times 10 of the Cpf family
\* exceeds 65535, so that the call panics or returns the digit of the wrapped
\* product.
C21_IntermediatesFit ==
    /\ (/\ call.fn = "cpf::calculate_verifier_digit"
        /\ InRange(call.digits)
        /\ Len(call.digits) \in {9, 10}) =>
        LET digits_sum == cpf_digits_sum(call.digits)
        IN  /\ ret.tag = "Returned"
            /\ ret.value \in 0..9
            /\ ~digits_sum.overflowed
            /\ digits_sum.value = digits_sum.exact
            /\ digits_sum.exact <= 5850
            /\ digits_sum.exact * 10 <= 5850
    /\ (/\ call.fn = "cnpj::calculate_verifier_digit"
        /\ InRange(call.digits)
        /\ Len(call.digits) \in {12, 13}) =>
        LET digits_sum == cnpj_digits_sum(call.digits)
            pre_verifier_digit == digits_sum.value % 11
        IN  /\ ret.tag = "Returned"
            /\ ret.value \in 0..9
            /\ ~digits_sum.overflowed
            /\ digits_sum.value = digits_sum.exact
            /\ digits_sum.exact <= 5850
            /\ pre_verifier_digit >= 2 =>
                   /\ 11 - pre_verifier_digit \in 1..9
                   /\ ret.value = 11 - pre_verifier_digit
    /\ (/\ call.fn = "cpf::calculate_verifier_digit"
        /\ call.digits = [i \in 1..9 |-> 255]) =>
        LET digits_sum == cpf_digits_sum(call.digits)
        IN  /\ digits_sum.value * 10 > 65535
            /\ ret.tag = "Panic" \/ ret = Returned(u16_wrap(digits_sum.value * 10) % 11)

\* C21 happens: cpf::calculate_verifier_digit was called on nine 255s in a
\* build with overflow checks and panicked.
C21_Witness ==
    /\ call.fn = "cpf::calculate_verifier_digit"
    /\ call.digits = [i \in 1..9 |-> 255]
    /\ ret.tag = "Panic"

====
